---- MODULE Spec2Model ----
(***************************************************************************)
(* AuraCast frontend, third script variant (src/unnamed/part_001): the     *)
(* upload -> parse -> select episode -> generate flow, the result          *)
(* presentation with its timers, and the interrupt / resume controller.    *)
(* Every event handler of the script is one action.  Network requests are  *)
(* messages in flight; timers are pending callbacks; the single <audio>    *)
(* element is modelled by its source, position and playing state.          *)
(***************************************************************************)
EXTENDS Integers, Sequences, FiniteSets, TLC

\* ------------------------------------------------------------------ bounds
MaxTime == 2          \* playback positions 0..MaxTime
MaxRequests == 3      \* network requests issued in one behaviour
MaxLines == 1         \* lines of a non-empty script returned by the server
MaxPrefix == 2        \* characters in front of the last segment of a file name
MaxRemovals == 2      \* history entries removed below a full store

\* ------------------------------------------------------- program constants
MAX_MB == 50
BYTES_PER_MB == 1048576
MaxBytes == MAX_MB * BYTES_PER_MB

NULL == "null"

ERR_NO_FILE == "Please select a file."
ERR_TYPE == "Only PDF and EPUB files are allowed."
ERR_LARGE == "File is too large (max 50 MB)."
ERR_SERVER == "Something went wrong."
ERR_DEMO == "Demo failed. Check that ffmpeg is installed."
ERR_NETWORK == "Network error. Please try again."
ERR_NO_EPISODE == "Please select an episode first."
ERR_NO_SCRIPT == "No episode script available."
NO_ERROR == ""

\* ------------------------------------------------------------- value sets
MainUrls == {"m1", "m2"}          \* audio_url values of generate/demo results
ClipUrls == {"a1"}                \* audio_url values of ask_hosts answers
Line(i) == [speaker |-> IF i % 2 = 1 THEN "Host A" ELSE "Host B", text |-> i]
FullScript == [i \in 1..MaxLines |-> Line(i)]
Scripts == {<< >>, FullScript}    \* data.script || []
\* data.episodes: ids are distinct; a title may be missing
Episodes == {<< >>, <<[id |-> 1, title |-> "t1"]>>,
             <<[id |-> 1, title |-> "t1"], [id |-> 12, title |-> ""]>>}
UploadIds == {"u1", "u2"}
NoEpisode == <<"null">>           \* selectedEpisodeId = null
\* the steering prompt field: empty, blank, text with blanks around it
Prompts == {<< >>, <<" ">>, <<" ", "p", " ">>}
NoResult == [script |-> << >>, audioUrl |-> "null", episodeTitle |-> "null",
             shown |-> FALSE]
NoResponse == [upload_id |-> "null", episodes |-> << >>, received |-> FALSE,
               id |-> 0, stale |-> FALSE, replaced |-> "null"]
NoPayload == [upload_id |-> "null", episode_id |-> 0, user_prompt |-> << >>,
              sent |-> FALSE]
Questions == {<< >>, <<" ", " ">>, <<" ", "q">>}

\* currentEpisodeScript is null until the first result, an array afterwards
NullScript == [isNull |-> TRUE, lines |-> << >>]
Loaded(s) == [isNull |-> FALSE, lines |-> s]

VARIABLES
  \* module-level state of the script
  currentUploadId, currentEpisodes, selectedEpisodeId, selectedEpisodeTitle,
  currentEpisodeScript, currentMainAudioUrl, savedResumeTime,
  isPlayingInterruptReply, progressTimeouts,
  \* the staged progress run of src/static/script.js: the stage counter of
  \* runStagedProgress and whether its timer is pending
  stage, stagedTimer,
  \* DOM: hidden / disabled attributes and contents
  errorMessage, errorPanelHidden, resultPanelHidden, progressHidden,
  progressPercent, submitBtnHidden, submitBtnDisabled, generateBtnDisabled,
  tryDemoDisabled, episodeExplorerHidden, episodeSelectedHidden, episodeList,
  resultEpisodeTitle, scriptContent, audioPlayerHidden,
  interruptBlockHidden, interruptBtnHidden, askFormHidden, askSubmitDisabled,
  questionInput, files, episodePrompt,
  \* the audio element
  audioSrc, audioTime, audioPlaying, replyPlayPending,
  \* local storage: the list stored under HISTORY_KEY, and whether the store
  \* can be read, parsed and written
  history, storeStatus,
  \* environment: requests in flight, pending untracked timers
  inflight, reqSeq, revealTimers, batchSeq,
  \* history variables: the handler that ran last, the offset the last
  \* interrupt captured, the questions sent since that interrupt, the body of
  \* the last generate_episode request, the result the last reveal displayed,
  \* the data of the last successful parse response with the id of its
  \* request, whether a newer parse request had been answered before it, and
  \* the upload id it replaced
  last, captured, asksThisPause, payload, displayed, returned

session == <<currentUploadId, currentEpisodes, selectedEpisodeId,
             selectedEpisodeTitle>>
playback == <<currentEpisodeScript, currentMainAudioUrl, savedResumeTime,
              isPlayingInterruptReply>>
banner == <<errorMessage, errorPanelHidden>>
panels == <<resultPanelHidden, progressHidden, progressPercent, submitBtnHidden,
            submitBtnDisabled, generateBtnDisabled, tryDemoDisabled,
            episodeExplorerHidden, episodeSelectedHidden, episodeList,
            resultEpisodeTitle, scriptContent, audioPlayerHidden>>
interruptUi == <<interruptBlockHidden, interruptBtnHidden, askFormHidden,
                 askSubmitDisabled, questionInput>>
audio == <<audioSrc, audioTime, audioPlaying, replyPlayPending>>
net == <<inflight, reqSeq>>
timers == <<progressTimeouts, revealTimers, batchSeq>>
staged == <<stage, stagedTimer>>
store == <<history, storeStatus>>
program == <<session, playback, banner, panels, interruptUi, audio, net,
             timers, files, staged, episodePrompt, store>>
ghost == <<captured, asksThisPause, payload, displayed, returned>>
vars == <<program, last, ghost>>

\* ------------------------------------------------------------ file names
\* A file name is a sequence of one-character strings.
Lower(c) == CASE c = "P" -> "p" [] c = "D" -> "d" [] c = "F" -> "f"
              [] c = "E" -> "e" [] c = "U" -> "u" [] c = "B" -> "b"
              [] OTHER -> c
toLowerCase(s) == [i \in 1..Len(s) |-> Lower(s[i])]

\* index of the last "." of the name, 0 when there is none
lastIndexOfDot(name) ==
  IF \E i \in 1..Len(name) : name[i] = "."
  THEN CHOOSE i \in 1..Len(name) :
         name[i] = "." /\ \A j \in (i + 1)..Len(name) : name[j] # "."
  ELSE 0

\* name.split(".").pop(): the text after the last ".", the whole name when
\* the name holds no "."
splitPop(name) == SubSeq(name, lastIndexOfDot(name) + 1, Len(name))

PDF == <<"p", "d", "f">>
EPUB == <<"e", "p", "u", "b">>

mutValidateFile_sizeGeq(fs) ==
  IF Len(fs) = 0 THEN ERR_NO_FILE
  ELSE LET ext == toLowerCase(splitPop(fs[1].name))
       IN  IF ext # PDF /\ ext # EPUB THEN ERR_TYPE
           ELSE IF fs[1].size >= MaxBytes THEN ERR_LARGE
           ELSE NO_ERROR

\* validateFile(): the error text, NO_ERROR for null
validateFile(fs) ==
  IF Len(fs) = 0 THEN ERR_NO_FILE
  ELSE LET ext == toLowerCase(splitPop(fs[1].name))
       IN  IF ext # PDF /\ ext # EPUB THEN ERR_TYPE
           ELSE IF fs[1].size > MaxBytes THEN ERR_LARGE
           ELSE NO_ERROR

MAX_FILENAME_LENGTH == 32
HistoryCap == 50
Ellipsis == <<"...">>
Max0(n) == IF n > 0 THEN n ELSE 0
formatFileName(name) ==
  IF Len(name) = 0 \/ Len(name) <= MAX_FILENAME_LENGTH THEN name
  ELSE LET i == lastIndexOfDot(name) - 1      \* 0-based index, -1 if none
           ext == IF i > 0 THEN SubSeq(name, i + 1, Len(name)) ELSE << >>
           base == IF i > 0 THEN SubSeq(name, 1, i) ELSE name
           keep == MAX_FILENAME_LENGTH - Len(ext) - 3
       IN  SubSeq(base, 1, Max0(keep)) \o Ellipsis \o ext

\* question.trim()
RECURSIVE trimLeft(_)
trimLeft(s) == IF Len(s) > 0 /\ s[1] = " " THEN trimLeft(Tail(s)) ELSE s
RECURSIVE trimRight(_)
trimRight(s) == IF Len(s) > 0 /\ s[Len(s)] = " "
                THEN trimRight(SubSeq(s, 1, Len(s) - 1)) ELSE s
mutTrim_none(s) == s

trim(s) == trimRight(trimLeft(s))

\* The files the user can pick: a stem of at most MaxPrefix characters
\* followed by a last part in any letter case.
StemChars == {"x", "."}
Stems == UNION {[1..n -> StemChars] : n \in 0..MaxPrefix}
PdfCases == {<<a, b, c>> : a \in {"p", "P"}, b \in {"d", "D"}, c \in {"f", "F"}}
EpubCases == {<<"e", "p", "u", "b">>, <<"E", "P", "U", "B">>, <<"e", "P", "u", "B">>}
OtherTails == {<< >>, <<"t", "x", "t">>, <<"p", "d", "f", "x">>}
FileNames == {st \o tl : st \in Stems, tl \in PdfCases \cup EpubCases \cup OtherTails}
               \ {<< >>}
FileSizes == {0, MaxBytes - 1, MaxBytes, MaxBytes + 1}
Files == {[name |-> n, size |-> z] : n \in FileNames, z \in FileSizes}
GoodFile == [name |-> <<"x", ".", "p", "d", "f">>, size |-> 0]
SessionFiles == {<< >>, <<GoodFile>>}

\* ------------------------------------------------------------------ Init
\* The page as loaded: nothing uploaded, every panel hidden, no audio.
InitPage ==
  /\ currentUploadId = NULL /\ currentEpisodes = << >>
  /\ selectedEpisodeId = NoEpisode /\ selectedEpisodeTitle = NULL
  /\ currentEpisodeScript = NullScript /\ currentMainAudioUrl = NULL
  /\ savedResumeTime = 0 /\ isPlayingInterruptReply = FALSE
  /\ progressTimeouts = {} /\ stage = 0 /\ stagedTimer = FALSE
  /\ errorMessage = NO_ERROR /\ errorPanelHidden = TRUE
  /\ resultPanelHidden = TRUE /\ progressHidden = TRUE /\ progressPercent = 0
  /\ submitBtnHidden = FALSE /\ submitBtnDisabled = FALSE
  /\ generateBtnDisabled = FALSE /\ tryDemoDisabled = FALSE
  /\ episodeExplorerHidden = TRUE /\ episodeSelectedHidden = TRUE
  /\ episodeList = << >> /\ resultEpisodeTitle = NULL /\ scriptContent = << >>
  /\ audioPlayerHidden = TRUE
  /\ interruptBlockHidden = TRUE /\ interruptBtnHidden = FALSE
  /\ askFormHidden = TRUE /\ askSubmitDisabled = FALSE
  /\ questionInput = << >> /\ files = << >> /\ episodePrompt = << >>
  /\ audioSrc = NULL /\ audioTime = 0 /\ audioPlaying = FALSE
  /\ replyPlayPending = FALSE
  /\ inflight = {} /\ reqSeq = 0 /\ revealTimers = << >> /\ batchSeq = 0
  /\ last = "load" /\ captured = 0 /\ asksThisPause = 0 /\ payload = NoPayload
  /\ displayed = NoResult /\ returned = NoResponse

\* first visit: the history store is empty
Init == InitPage /\ history = << >> /\ storeStatus = "ok"

\* a later visit: the store holds the entries of n earlier uploads, newest
\* first, their ids the times they were added at
StoredHistory(n) ==
  [i \in 1..n |-> [id |-> n - i, name |-> formatFileName(GoodFile.name),
                   fullName |-> GoodFile.name]]
InitStored ==
  /\ InitPage
  /\ history \in {StoredHistory(n) : n \in {0, HistoryCap - 1, HistoryCap}}
  /\ storeStatus = "ok"

\* ------------------------------------------------- functions of the script
\* showError(msg); the callers leave every other variable as they say
showError(msg) ==
  /\ errorMessage' = msg
  /\ errorPanelHidden' = FALSE
  /\ resultPanelHidden' = TRUE
  /\ progressHidden' = TRUE
  /\ submitBtnHidden' = FALSE
  /\ submitBtnDisabled' = FALSE
  /\ generateBtnDisabled' = FALSE
  /\ progressTimeouts' = {}

shownByError == <<errorMessage, errorPanelHidden, resultPanelHidden,
                  progressHidden, submitBtnHidden, submitBtnDisabled,
                  generateBtnDisabled, progressTimeouts>>

\* showResult(script, audioUrl, episodeTitle), the part that runs at once:
\* tracked timers are cleared, progress jumps to 100, the script and the main
\* audio URL are stored, and the reveal is scheduled PROGRESS_TRANSITION_MS
\* later on a timer that is not kept in progressTimeouts.
showResult(script, audioUrl, episodeTitle) ==
  /\ progressTimeouts' = {}
  /\ progressPercent' = 100
  /\ currentEpisodeScript' = Loaded(script)
  /\ currentMainAudioUrl' = audioUrl
  /\ revealTimers' = Append(revealTimers,
        [script |-> script, audioUrl |-> audioUrl, episodeTitle |-> episodeTitle])

mutResume_keepFlag ==
  /\ isPlayingInterruptReply' = isPlayingInterruptReply
  /\ askFormHidden' = TRUE
  /\ interruptBtnHidden' = FALSE
  /\ questionInput' = << >>
  /\ IF currentMainAudioUrl # NULL
     THEN /\ audioSrc' = currentMainAudioUrl
          /\ audioTime' = savedResumeTime
          /\ audioPlaying' = TRUE
     ELSE /\ audioSrc' = audioSrc
          /\ audioTime' = audioTime
          /\ audioPlaying' = FALSE

\* resumeMainAudio(): runs when the audio element is not playing (the clip
\* ended or its play() was rejected).  Assigning src loads the main track,
\* assigning currentTime positions it, play() starts it.
resumeMainAudio ==
  /\ isPlayingInterruptReply' = FALSE
  /\ askFormHidden' = TRUE
  /\ interruptBtnHidden' = FALSE
  /\ questionInput' = << >>
  /\ IF currentMainAudioUrl # NULL
     THEN /\ audioSrc' = currentMainAudioUrl
          /\ audioTime' = savedResumeTime
          /\ audioPlaying' = TRUE
     ELSE /\ audioSrc' = audioSrc
          /\ audioTime' = audioTime
          /\ audioPlaying' = FALSE

\* The local store as getHistory and saveHistory meet it: "ok"; "unreadable"
\* (getItem and setItem throw); "unparsable" (the stored text is not JSON:
\* JSON.parse throws, a write replaces it); "full" (setItem throws).
StoreStatuses == {"ok", "unreadable", "unparsable", "full"}

\* getHistory(): the stored list, [] when reading or parsing throws
getHistory ==
  IF storeStatus \in {"unreadable", "unparsable"} THEN << >> ELSE history

mutSaveHistory_writesAnyway(list) ==
  /\ history' = list
  /\ storeStatus' = storeStatus

\* saveHistory(list): the list is stored; nothing happens when setItem throws
saveHistory(list) ==
  IF storeStatus \in {"unreadable", "full"}
  THEN UNCHANGED store
  ELSE /\ history' = list
       /\ storeStatus' = "ok"

mutAddToHistory_keepsOldest(filename, now) ==
  LET list == <<[id |-> now, name |-> formatFileName(filename),
                 fullName |-> filename]>> \o getHistory
  IN  saveHistory(IF Len(list) > HistoryCap
                  THEN <<list[1]>> \o SubSeq(list, 3, HistoryCap + 1)
                  ELSE list)

\* Date.now() at add time: never below the id of an entry already stored
NewestId == IF Len(history) = 0 THEN 0 ELSE history[1].id
addToHistory(filename, now) ==
  LET list == <<[id |-> now, name |-> formatFileName(filename),
                 fullName |-> filename]>> \o getHistory
  IN  saveHistory(IF Len(list) > HistoryCap THEN SubSeq(list, 1, HistoryCap)
                  ELSE list)

\* String(n) of a non-negative integer: its decimal digits
Digits == <<"0", "1", "2", "3", "4", "5", "6", "7", "8", "9">>
RECURSIVE String(_)
String(n) == IF n < 10 THEN <<Digits[n + 1]>>
             ELSE String(n \div 10) \o <<Digits[(n % 10) + 1]>>

\* parseInt(s, 10): the value of the leading decimal digits, NaN without any
NaN == "NaN"
IsDigit(c) == \E d \in 1..10 : Digits[d] = c
DigitValue(c) == (CHOOSE d \in 1..10 : Digits[d] = c) - 1
RECURSIVE parseDigits(_, _)
parseDigits(s, acc) ==
  IF Len(s) > 0 /\ IsDigit(s[1])
  THEN parseDigits(Tail(s), acc * 10 + DigitValue(s[1]))
  ELSE acc
parseInt(s) == IF Len(s) > 0 /\ IsDigit(s[1]) THEN parseDigits(s, 0) ELSE NaN

\* ep.title || "Episode " + ep.id
DefaultTitle(id) == CASE id = 1 -> "Episode 1" [] id = 12 -> "Episode 12"
                      [] OTHER -> "Episode"
\* renderEpisodeList(episodes): one item per episode, none marked selected;
\* the id and the title are kept as strings in the item's dataset
renderEpisodeList(episodes) ==
  [i \in 1..Len(episodes) |->
     [episodeId |-> String(episodes[i].id),
      episodeTitle |-> IF episodes[i].title # "" THEN episodes[i].title
                       ELSE DefaultTitle(episodes[i].id),
      isSelected |-> FALSE]]

Send(kind) == /\ reqSeq < MaxRequests
              /\ reqSeq' = reqSeq + 1
              /\ inflight' = inflight \cup {[id |-> reqSeq + 1, kind |-> kind]}
Receive(r, kind) == /\ r \in inflight
                    /\ r.kind = kind
                    /\ inflight' = inflight \ {r}
                    /\ reqSeq' = reqSeq

\* ------------------------------------------------------ upload and parse
\* fileInput "change": the user picks a file or clears the selection
SelectFile(fs) ==
  /\ files' = fs
  /\ last' = "selectFile"
  /\ UNCHANGED <<session, playback, banner, panels, interruptUi, audio, net,
                 timers, staged, episodePrompt, store, ghost>>

\* form "submit" with a file that fails validateFile(): showError, no request
SubmitInvalid ==
  /\ ~submitBtnHidden /\ ~submitBtnDisabled
  /\ validateFile(files) # NO_ERROR
  /\ showError(validateFile(files))
  /\ last' = "submitInvalid"
  /\ UNCHANGED <<session, playback, progressPercent, tryDemoDisabled,
                 episodeExplorerHidden, episodeSelectedHidden, episodeList,
                 resultEpisodeTitle, scriptContent, audioPlayerHidden,
                 interruptUi, audio, net, revealTimers, batchSeq, files, staged, episodePrompt,
                 store, ghost>>

\* form "submit" with a valid file: POST /api/parse
SubmitParse ==
  /\ ~submitBtnHidden /\ ~submitBtnDisabled
  /\ validateFile(files) = NO_ERROR
  /\ errorPanelHidden' = TRUE
  /\ submitBtnHidden' = TRUE
  /\ progressHidden' = FALSE
  /\ progressPercent' = 20
  /\ Send("parse")
  /\ last' = "submitParse"
  /\ UNCHANGED <<session, playback, errorMessage, resultPanelHidden,
                 submitBtnDisabled, generateBtnDisabled, tryDemoDisabled,
                 episodeExplorerHidden, episodeSelectedHidden, episodeList,
                 resultEpisodeTitle, scriptContent, audioPlayerHidden,
                 interruptUi, audio, timers, files, staged, episodePrompt, store, ghost>>

mutParseOk_dropsStale(r, uploadId, episodes, now) ==
  /\ Receive(r, "parse")
  /\ progressHidden' = TRUE
  /\ submitBtnHidden' = FALSE
  /\ submitBtnDisabled' = FALSE
  /\ currentUploadId' = IF r.id < returned.id THEN currentUploadId ELSE uploadId
  /\ currentEpisodes' = IF r.id < returned.id THEN currentEpisodes ELSE episodes
  /\ selectedEpisodeId' = NoEpisode
  /\ selectedEpisodeTitle' = NULL
  /\ episodeSelectedHidden' = TRUE
  /\ episodeList' = IF r.id < returned.id THEN episodeList
                     ELSE renderEpisodeList(episodes)
  /\ episodeExplorerHidden' = FALSE
  /\ IF Len(files) > 0 /\ Len(files[1].name) > 0
     THEN addToHistory(files[1].name, now)
     ELSE UNCHANGED store
  /\ returned' = [upload_id |-> uploadId, episodes |-> episodes,
                   received |-> TRUE, id |-> r.id,
                   stale |-> r.id < returned.id, replaced |-> currentUploadId]
  /\ last' = "parseOk"
  /\ UNCHANGED <<playback, banner, resultPanelHidden, progressPercent,
                 generateBtnDisabled, tryDemoDisabled, resultEpisodeTitle,
                 scriptContent, audioPlayerHidden, interruptUi, audio, timers,
                 files, staged, episodePrompt, captured, asksThisPause, payload,
                 displayed>>

\* /api/parse answered 2xx
ParseOk(r, uploadId, episodes, now) ==
  /\ Receive(r, "parse")
  /\ progressHidden' = TRUE
  /\ submitBtnHidden' = FALSE
  /\ submitBtnDisabled' = FALSE
  /\ currentUploadId' = uploadId
  /\ currentEpisodes' = episodes
  /\ selectedEpisodeId' = NoEpisode
  /\ selectedEpisodeTitle' = NULL
  /\ episodeSelectedHidden' = TRUE
  /\ episodeList' = renderEpisodeList(episodes)
  /\ episodeExplorerHidden' = FALSE
  /\ IF Len(files) > 0 /\ Len(files[1].name) > 0
     THEN addToHistory(files[1].name, now)
     ELSE UNCHANGED store
  /\ returned' = [upload_id |-> uploadId, episodes |-> episodes,
                   received |-> TRUE, id |-> r.id,
                   stale |-> r.id < returned.id, replaced |-> currentUploadId]
  /\ last' = "parseOk"
  /\ UNCHANGED <<playback, banner, resultPanelHidden, progressPercent,
                 generateBtnDisabled, tryDemoDisabled, resultEpisodeTitle,
                 scriptContent, audioPlayerHidden, interruptUi, audio, timers,
                 files, staged, episodePrompt, captured, asksThisPause, payload,
                 displayed>>

mutParseFailed_clearsSelection(r) ==
  /\ Receive(r, "parse")
  /\ showError(ERR_SERVER)
  /\ selectedEpisodeId' = NoEpisode
  /\ selectedEpisodeTitle' = NULL
  /\ last' = "parseFailed"
  /\ UNCHANGED <<currentUploadId, currentEpisodes, playback, progressPercent,
                 tryDemoDisabled, episodeExplorerHidden, episodeSelectedHidden,
                 episodeList, resultEpisodeTitle, scriptContent,
                 audioPlayerHidden, interruptUi, audio, revealTimers, batchSeq,
                 files, staged, episodePrompt, store, ghost>>

\* /api/parse answered non-2xx
ParseFailed(r) ==
  /\ Receive(r, "parse")
  /\ showError(ERR_SERVER)
  /\ last' = "parseFailed"
  /\ UNCHANGED <<session, playback, progressPercent, tryDemoDisabled,
                 episodeExplorerHidden, episodeSelectedHidden, episodeList,
                 resultEpisodeTitle, scriptContent, audioPlayerHidden,
                 interruptUi, audio, revealTimers, batchSeq, files, staged, episodePrompt, store,
                 ghost>>

\* /api/parse could not complete
ParseNetworkError(r) ==
  /\ Receive(r, "parse")
  /\ showError(ERR_NETWORK)
  /\ last' = "parseNetworkError"
  /\ UNCHANGED <<session, playback, progressPercent, tryDemoDisabled,
                 episodeExplorerHidden, episodeSelectedHidden, episodeList,
                 resultEpisodeTitle, scriptContent, audioPlayerHidden,
                 interruptUi, audio, revealTimers, batchSeq, files, staged, episodePrompt, store,
                 ghost>>

\* ------------------------------------------- episode selection, generate
mutOnEpisodeSelected_keepsMarks(k) ==
  /\ ~episodeExplorerHidden
  /\ k \in 1..Len(episodeList)
  /\ selectedEpisodeId' = episodeList[k].episodeId
  /\ selectedEpisodeTitle' = episodeList[k].episodeTitle
  /\ episodeSelectedHidden' = FALSE
  /\ episodePrompt' = << >>
  /\ episodeList' = [i \in 1..Len(episodeList) |->
        [episodeList[i] EXCEPT
           !.isSelected = (episodeList[i].isSelected \/ i = k)]]
  /\ last' = "selectEpisode"
  /\ UNCHANGED <<currentUploadId, currentEpisodes, playback, banner,
                 resultPanelHidden, progressHidden, progressPercent,
                 submitBtnHidden, submitBtnDisabled, generateBtnDisabled,
                 tryDemoDisabled, episodeExplorerHidden, resultEpisodeTitle,
                 scriptContent, audioPlayerHidden, interruptUi, audio, net,
                 timers, files, staged, store, ghost>>

\* click / Enter / Space on item k of the episode list: onEpisodeSelected
onEpisodeSelected(k) ==
  /\ ~episodeExplorerHidden
  /\ k \in 1..Len(episodeList)
  /\ selectedEpisodeId' = episodeList[k].episodeId
  /\ selectedEpisodeTitle' = episodeList[k].episodeTitle
  /\ episodeSelectedHidden' = FALSE
  /\ episodePrompt' = << >>
  /\ episodeList' = [i \in 1..Len(episodeList) |->
        [episodeList[i] EXCEPT
           !.isSelected = (episodeList[i].episodeId = episodeList[k].episodeId)]]
  /\ last' = "selectEpisode"
  /\ UNCHANGED <<currentUploadId, currentEpisodes, playback, banner,
                 resultPanelHidden, progressHidden, progressPercent,
                 submitBtnHidden, submitBtnDisabled, generateBtnDisabled,
                 tryDemoDisabled, episodeExplorerHidden, resultEpisodeTitle,
                 scriptContent, audioPlayerHidden, interruptUi, audio, net,
                 timers, files, staged, store, ghost>>

\* the user edits the steering prompt of the selected episode
TypePrompt(p) ==
  /\ ~episodeExplorerHidden /\ ~episodeSelectedHidden
  /\ episodePrompt' = p
  /\ last' = "typePrompt"
  /\ UNCHANGED <<session, playback, banner, panels, interruptUi, audio, net,
                 timers, files, staged, store, ghost>>

\* generate button with no upload or no selection: showError, no request
GenerateNoEpisode ==
  /\ ~episodeExplorerHidden /\ ~generateBtnDisabled
  /\ (currentUploadId = NULL \/ selectedEpisodeId = NoEpisode)
  /\ showError(ERR_NO_EPISODE)
  /\ last' = "generateNoEpisode"
  /\ UNCHANGED <<session, playback, progressPercent, tryDemoDisabled,
                 episodeExplorerHidden, episodeSelectedHidden, episodeList,
                 resultEpisodeTitle, scriptContent, audioPlayerHidden,
                 interruptUi, audio, net, revealTimers, batchSeq, files, staged, episodePrompt,
                 store, ghost>>

mutGenerateClick_rawPrompt ==
  /\ ~episodeExplorerHidden /\ ~generateBtnDisabled
  /\ currentUploadId # NULL /\ selectedEpisodeId # NoEpisode
  /\ errorPanelHidden' = TRUE
  /\ generateBtnDisabled' = TRUE
  /\ progressHidden' = FALSE
  /\ progressPercent' = 30
  /\ payload' = [upload_id |-> currentUploadId,
                  episode_id |-> parseInt(selectedEpisodeId),
                  user_prompt |-> episodePrompt, sent |-> TRUE]
  /\ Send("generate")
  /\ last' = "generateClick"
  /\ UNCHANGED <<session, playback, errorMessage, resultPanelHidden,
                 submitBtnHidden, submitBtnDisabled, tryDemoDisabled,
                 episodeExplorerHidden, episodeSelectedHidden, episodeList,
                 resultEpisodeTitle, scriptContent, audioPlayerHidden,
                 interruptUi, audio, timers, files, staged, episodePrompt, store,
                 captured, asksThisPause, displayed, returned>>

\* generate button: POST /api/generate_episode
GenerateClick ==
  /\ ~episodeExplorerHidden /\ ~generateBtnDisabled
  /\ currentUploadId # NULL /\ selectedEpisodeId # NoEpisode
  /\ errorPanelHidden' = TRUE
  /\ generateBtnDisabled' = TRUE
  /\ progressHidden' = FALSE
  /\ progressPercent' = 30
  /\ payload' = [upload_id |-> currentUploadId,
                  episode_id |-> parseInt(selectedEpisodeId),
                  user_prompt |-> trim(episodePrompt), sent |-> TRUE]
  /\ Send("generate")
  /\ last' = "generateClick"
  /\ UNCHANGED <<session, playback, errorMessage, resultPanelHidden,
                 submitBtnHidden, submitBtnDisabled, tryDemoDisabled,
                 episodeExplorerHidden, episodeSelectedHidden, episodeList,
                 resultEpisodeTitle, scriptContent, audioPlayerHidden,
                 interruptUi, audio, timers, files, staged, episodePrompt, store,
                 captured, asksThisPause, displayed, returned>>

\* /api/generate_episode answered 2xx: showResult with the title selected now
GenerateOk(r, script, audioUrl) ==
  /\ Receive(r, "generate")
  /\ showResult(script, audioUrl, selectedEpisodeTitle)
  /\ last' = "generateOk"
  /\ UNCHANGED <<session, savedResumeTime, isPlayingInterruptReply, banner,
                 resultPanelHidden, progressHidden, submitBtnHidden,
                 submitBtnDisabled, generateBtnDisabled, tryDemoDisabled,
                 episodeExplorerHidden, episodeSelectedHidden, episodeList,
                 resultEpisodeTitle, scriptContent, audioPlayerHidden,
                 interruptUi, audio, batchSeq, files, staged, episodePrompt, store, ghost>>

\* /api/generate_episode answered non-2xx, or could not complete
GenerateFailed(r, msg) ==
  /\ Receive(r, "generate")
  /\ showError(msg)
  /\ last' = "generateFailed"
  /\ UNCHANGED <<session, playback, progressPercent, tryDemoDisabled,
                 episodeExplorerHidden, episodeSelectedHidden, episodeList,
                 resultEpisodeTitle, scriptContent, audioPlayerHidden,
                 interruptUi, audio, revealTimers, batchSeq, files, staged, episodePrompt, store,
                 ghost>>

\* ------------------------------------------------------------------ demo
\* "Try demo" button: POST /api/demo_episode
DemoClick ==
  /\ ~tryDemoDisabled
  /\ errorPanelHidden' = TRUE
  /\ tryDemoDisabled' = TRUE
  /\ progressHidden' = FALSE
  /\ progressPercent' = 20
  /\ Send("demo")
  /\ last' = "demoClick"
  /\ UNCHANGED <<session, playback, errorMessage, resultPanelHidden,
                 submitBtnHidden, submitBtnDisabled, generateBtnDisabled,
                 episodeExplorerHidden, episodeSelectedHidden, episodeList,
                 resultEpisodeTitle, scriptContent, audioPlayerHidden,
                 interruptUi, audio, timers, files, staged, episodePrompt, store, ghost>>

\* /api/demo_episode answered 2xx
DemoOk(r, script, audioUrl) ==
  /\ Receive(r, "demo")
  /\ tryDemoDisabled' = FALSE
  /\ progressHidden' = TRUE
  /\ showResult(script, audioUrl, "Demo")
  /\ last' = "demoOk"
  /\ UNCHANGED <<session, savedResumeTime, isPlayingInterruptReply, banner,
                 resultPanelHidden, submitBtnHidden, submitBtnDisabled,
                 generateBtnDisabled, episodeExplorerHidden,
                 episodeSelectedHidden, episodeList, resultEpisodeTitle,
                 scriptContent, audioPlayerHidden, interruptUi, audio,
                 batchSeq, files, staged, episodePrompt, store, ghost>>

mutDemoFailed_staysDisabled(r, msg) ==
  /\ Receive(r, "demo")
  /\ tryDemoDisabled' = tryDemoDisabled
  /\ showError(msg)
  /\ last' = "demoFailed"
  /\ UNCHANGED <<session, playback, progressPercent, episodeExplorerHidden,
                 episodeSelectedHidden, episodeList, resultEpisodeTitle,
                 scriptContent, audioPlayerHidden, interruptUi, audio,
                 revealTimers, batchSeq, files, staged, episodePrompt, store, ghost>>

\* /api/demo_episode answered non-2xx, or could not complete
DemoFailed(r, msg) ==
  /\ Receive(r, "demo")
  /\ tryDemoDisabled' = FALSE
  /\ showError(msg)
  /\ last' = "demoFailed"
  /\ UNCHANGED <<session, playback, progressPercent, episodeExplorerHidden,
                 episodeSelectedHidden, episodeList, resultEpisodeTitle,
                 scriptContent, audioPlayerHidden, interruptUi, audio,
                 revealTimers, batchSeq, files, staged, episodePrompt, store, ghost>>

\* ---------------------------------------------------------------- history
\* the delete button of a history item: removeFromHistory(id) drops every
\* stored entry with that id
removeFromHistory(id) ==
  saveHistory(SelectSeq(getHistory, LAMBDA item : item.id # id))

RemoveFromHistory(i) ==
  /\ i \in 1..Len(getHistory)
  /\ removeFromHistory(getHistory[i].id)
  /\ last' = "removeFromHistory"
  /\ UNCHANGED <<session, playback, banner, panels, interruptUi, audio, net,
                 timers, files, staged, episodePrompt, ghost>>

\* the error banner's dismiss button: hideError
DismissError ==
  /\ ~errorPanelHidden
  /\ errorPanelHidden' = TRUE
  /\ last' = "dismissError"
  /\ UNCHANGED <<session, playback, errorMessage, panels, interruptUi, audio,
                 net, timers, files, staged, episodePrompt, store, ghost>>

\* ------------------------------------------------------ result presentation
Truthy(title) == title # NULL /\ title # ""

\* the bubble timers one reveal schedules: line i after i * CHAT_STAGGER_MS
Bubbles(script, batch) ==
  {[batch |-> batch, idx |-> i, line |-> script[i]] : i \in 1..Len(script)}

mutRevealTimer_keepsOffset ==
  /\ Len(revealTimers) > 0
  /\ LET t == Head(revealTimers)
         withControls == t.audioUrl # NULL /\ ~currentEpisodeScript.isNull
                         /\ Len(currentEpisodeScript.lines) > 0
     IN  /\ revealTimers' = Tail(revealTimers)
         /\ progressHidden' = TRUE
         /\ submitBtnHidden' = FALSE
         /\ submitBtnDisabled' = FALSE
         /\ generateBtnDisabled' = FALSE
         /\ errorPanelHidden' = TRUE
         /\ resultPanelHidden' = FALSE
         /\ resultEpisodeTitle' = IF Truthy(t.episodeTitle) THEN t.episodeTitle
                                  ELSE NULL
         /\ scriptContent' = << >>
         /\ IF t.audioUrl # NULL
            THEN /\ audioSrc' = t.audioUrl
                 /\ audioTime' = 0
                 /\ audioPlaying' = FALSE
                 /\ audioPlayerHidden' = FALSE
            ELSE /\ audioSrc' = NULL
                 /\ audioPlayerHidden' = TRUE
                 /\ UNCHANGED <<audioTime, audioPlaying>>
         /\ interruptBlockHidden' = ~withControls
         /\ askFormHidden' = IF withControls THEN TRUE ELSE askFormHidden
         /\ interruptBtnHidden' = IF withControls THEN FALSE
                                  ELSE interruptBtnHidden
         /\ savedResumeTime' = savedResumeTime
         /\ isPlayingInterruptReply' = FALSE
         /\ progressTimeouts' = progressTimeouts \cup Bubbles(t.script, batchSeq + 1)
         /\ batchSeq' = batchSeq + 1
         /\ displayed' = [script |-> t.script, audioUrl |-> t.audioUrl,
                          episodeTitle |-> t.episodeTitle, shown |-> TRUE]
  /\ last' = "reveal"
  /\ UNCHANGED <<session, currentEpisodeScript, currentMainAudioUrl,
                 errorMessage, progressPercent, tryDemoDisabled,
                 episodeExplorerHidden, episodeSelectedHidden, episodeList,
                 askSubmitDisabled, questionInput, replyPlayPending, net,
                 files, staged, episodePrompt, store, captured, asksThisPause,
                 payload, returned>>

\* The callback showResult scheduled, PROGRESS_TRANSITION_MS later.  Equal
\* delays fire in the order they were set, so the oldest reveal runs first.
\* script and audioUrl are the closure's; currentEpisodeScript is read now.
RevealTimer ==
  /\ Len(revealTimers) > 0
  /\ LET t == Head(revealTimers)
         withControls == t.audioUrl # NULL /\ ~currentEpisodeScript.isNull
                         /\ Len(currentEpisodeScript.lines) > 0
     IN  /\ revealTimers' = Tail(revealTimers)
         /\ progressHidden' = TRUE
         /\ submitBtnHidden' = FALSE
         /\ submitBtnDisabled' = FALSE
         /\ generateBtnDisabled' = FALSE
         /\ errorPanelHidden' = TRUE
         /\ resultPanelHidden' = FALSE
         /\ resultEpisodeTitle' = IF Truthy(t.episodeTitle) THEN t.episodeTitle
                                  ELSE NULL
         /\ scriptContent' = << >>
         /\ IF t.audioUrl # NULL
            THEN /\ audioSrc' = t.audioUrl
                 /\ audioTime' = 0
                 /\ audioPlaying' = FALSE
                 /\ audioPlayerHidden' = FALSE
            ELSE /\ audioSrc' = NULL
                 /\ audioPlayerHidden' = TRUE
                 /\ UNCHANGED <<audioTime, audioPlaying>>
         /\ interruptBlockHidden' = ~withControls
         /\ askFormHidden' = IF withControls THEN TRUE ELSE askFormHidden
         /\ interruptBtnHidden' = IF withControls THEN FALSE
                                  ELSE interruptBtnHidden
         /\ savedResumeTime' = 0
         /\ isPlayingInterruptReply' = FALSE
         /\ progressTimeouts' = progressTimeouts \cup Bubbles(t.script, batchSeq + 1)
         /\ batchSeq' = batchSeq + 1
         /\ displayed' = [script |-> t.script, audioUrl |-> t.audioUrl,
                          episodeTitle |-> t.episodeTitle, shown |-> TRUE]
  /\ last' = "reveal"
  /\ UNCHANGED <<session, currentEpisodeScript, currentMainAudioUrl,
                 errorMessage, progressPercent, tryDemoDisabled,
                 episodeExplorerHidden, episodeSelectedHidden, episodeList,
                 askSubmitDisabled, questionInput, replyPlayPending, net,
                 files, staged, episodePrompt, store, captured, asksThisPause,
                 payload, returned>>

\* A bubble timer b may fire when no pending bubble timer is due before it:
\* an earlier line of its own batch, or a line of an older batch whose delay
\* is not longer.
Due(b) ==
  /\ b \in progressTimeouts
  /\ \A o \in progressTimeouts :
       ~(o.batch = b.batch /\ o.idx < b.idx) /\ ~(o.batch < b.batch /\ o.idx <= b.idx)

\* a bubble timer fires: one row is appended to the transcript
BubbleTimer(b) ==
  /\ Due(b)
  /\ progressTimeouts' = progressTimeouts \ {b}
  /\ scriptContent' = Append(scriptContent, b.line)
  /\ last' = "bubble"
  /\ UNCHANGED <<session, playback, banner, resultPanelHidden, progressHidden,
                 progressPercent, submitBtnHidden, submitBtnDisabled,
                 generateBtnDisabled, tryDemoDisabled, episodeExplorerHidden,
                 episodeSelectedHidden, episodeList, resultEpisodeTitle,
                 audioPlayerHidden, interruptUi, audio, net, revealTimers,
                 batchSeq, files, staged, episodePrompt, store, ghost>>

\* ------------------------------------------------------- the audio element
\* the user starts the loaded track with the player's own controls
UserPlay ==
  /\ ~audioPlayerHidden /\ audioSrc # NULL /\ ~audioPlaying
  /\ audioPlaying' = TRUE
  /\ last' = "userPlay"
  /\ UNCHANGED <<session, playback, banner, panels, interruptUi, audioSrc,
                 audioTime, replyPlayPending, net, timers, files, staged, episodePrompt, store,
                 ghost>>

\* playback advances; a clip that plays has had its play() promise resolved
AudioAdvance ==
  /\ audioPlaying /\ audioTime < MaxTime
  /\ audioTime' = audioTime + 1
  /\ replyPlayPending' = IF audioSrc \in ClipUrls THEN FALSE ELSE replyPlayPending
  /\ last' = "timeupdate"
  /\ UNCHANGED <<session, playback, banner, panels, interruptUi, audioSrc,
                 audioPlaying, net, timers, files, staged, episodePrompt, store, ghost>>

\* "ended": the playing resource reached its end
AudioEnded ==
  /\ audioPlaying
  /\ replyPlayPending' = IF audioSrc \in ClipUrls THEN FALSE ELSE replyPlayPending
  /\ IF isPlayingInterruptReply
     THEN /\ resumeMainAudio
          /\ UNCHANGED <<interruptBlockHidden, askSubmitDisabled>>
     ELSE /\ audioPlaying' = FALSE
          /\ UNCHANGED <<isPlayingInterruptReply, interruptUi, audioSrc, audioTime>>
  /\ last' = "ended"
  /\ UNCHANGED <<session, currentEpisodeScript, currentMainAudioUrl,
                 savedResumeTime, banner, panels, net, timers, files, staged, episodePrompt, store,
                 ghost>>

\* ------------------------------------------------ interrupt / resume controller
\* what the user can click: an element is shown when neither it nor the
\* interrupt block around it is hidden
InterruptBtnShown == ~interruptBlockHidden /\ ~interruptBtnHidden
AskFormShown == ~interruptBlockHidden /\ ~askFormHidden

\* interrupt button, guard fails: the handler returns at once
InterruptIgnored ==
  /\ InterruptBtnShown
  /\ (currentEpisodeScript.isNull \/ currentMainAudioUrl = NULL)
  /\ last' = "interruptIgnored"
  /\ UNCHANGED <<program, ghost>>

\* interrupt button: pause, capture the position, show the ask form
InterruptClick ==
  /\ InterruptBtnShown
  /\ ~currentEpisodeScript.isNull /\ currentMainAudioUrl # NULL
  /\ audioPlaying' = FALSE
  /\ savedResumeTime' = audioTime
  /\ askFormHidden' = FALSE
  /\ interruptBtnHidden' = TRUE
  /\ captured' = audioTime
  /\ asksThisPause' = 0
  /\ last' = "interrupt"
  /\ UNCHANGED <<session, currentEpisodeScript, currentMainAudioUrl,
                 isPlayingInterruptReply, banner, panels, interruptBlockHidden,
                 askSubmitDisabled, questionInput, audioSrc, audioTime,
                 replyPlayPending, net, timers, files, staged, episodePrompt, store,
                 payload, displayed, returned>>

mutTypeQuestion_enables(q) ==
  /\ AskFormShown
  /\ questionInput' = q
  /\ askSubmitDisabled' = FALSE
  /\ last' = "typeQuestion"
  /\ UNCHANGED <<session, playback, banner, panels, interruptBlockHidden,
                 interruptBtnHidden, askFormHidden, audio,
                 net, timers, files, staged, episodePrompt, store, ghost>>

\* the user edits the question field
TypeQuestion(q) ==
  /\ AskFormShown
  /\ questionInput' = q
  /\ last' = "typeQuestion"
  /\ UNCHANGED <<session, playback, banner, panels, interruptBlockHidden,
                 interruptBtnHidden, askFormHidden, askSubmitDisabled, audio,
                 net, timers, files, staged, episodePrompt, store, ghost>>

\* ask button with a blank question: the handler returns at once
AskBlank ==
  /\ AskFormShown /\ ~askSubmitDisabled
  /\ trim(questionInput) = << >>
  /\ last' = "askBlank"
  /\ UNCHANGED <<program, ghost>>

\* ask button with a question but no script lines: showError, no request
AskNoScript ==
  /\ AskFormShown /\ ~askSubmitDisabled
  /\ trim(questionInput) # << >>
  /\ (currentEpisodeScript.isNull \/ Len(currentEpisodeScript.lines) = 0)
  /\ showError(ERR_NO_SCRIPT)
  /\ last' = "askNoScript"
  /\ UNCHANGED <<session, playback, progressPercent, tryDemoDisabled,
                 episodeExplorerHidden, episodeSelectedHidden, episodeList,
                 resultEpisodeTitle, scriptContent, audioPlayerHidden,
                 interruptUi, audio, net, revealTimers, batchSeq, files, staged, episodePrompt,
                 store, ghost>>

mutAskSubmit_staysEnabled ==
  /\ AskFormShown /\ ~askSubmitDisabled
  /\ trim(questionInput) # << >>
  /\ ~currentEpisodeScript.isNull /\ Len(currentEpisodeScript.lines) > 0
  /\ askSubmitDisabled' = askSubmitDisabled
  /\ Send("ask")
  /\ asksThisPause' = asksThisPause + 1
  /\ last' = "askSubmit"
  /\ UNCHANGED <<session, playback, banner, panels, interruptBlockHidden,
                 interruptBtnHidden, askFormHidden, questionInput, audio,
                 timers, files, staged, episodePrompt, store, captured,
                 payload, displayed, returned>>

\* ask button: POST /api/ask_hosts
AskSubmit ==
  /\ AskFormShown /\ ~askSubmitDisabled
  /\ trim(questionInput) # << >>
  /\ ~currentEpisodeScript.isNull /\ Len(currentEpisodeScript.lines) > 0
  /\ askSubmitDisabled' = TRUE
  /\ Send("ask")
  /\ asksThisPause' = asksThisPause + 1
  /\ last' = "askSubmit"
  /\ UNCHANGED <<session, playback, banner, panels, interruptBlockHidden,
                 interruptBtnHidden, askFormHidden, questionInput, audio,
                 timers, files, staged, episodePrompt, store, captured,
                 payload, displayed, returned>>

mutAskFailed_formStays(r, msg) ==
  /\ Receive(r, "ask")
  /\ askSubmitDisabled' = FALSE
  /\ showError(msg)
  /\ last' = "askFailed"
  /\ UNCHANGED <<session, playback, progressPercent, tryDemoDisabled,
                 episodeExplorerHidden, episodeSelectedHidden, episodeList,
                 resultEpisodeTitle, scriptContent, audioPlayerHidden,
                 interruptBlockHidden, interruptBtnHidden, askFormHidden,
                 questionInput, audio, revealTimers, batchSeq, files, staged, episodePrompt, store,
                 ghost>>

\* /api/ask_hosts answered non-2xx, or could not complete
AskFailed(r, msg) ==
  /\ Receive(r, "ask")
  /\ askSubmitDisabled' = FALSE
  /\ showError(msg)
  /\ interruptBtnHidden' = FALSE
  /\ askFormHidden' = TRUE
  /\ last' = "askFailed"
  /\ UNCHANGED <<session, playback, progressPercent, tryDemoDisabled,
                 episodeExplorerHidden, episodeSelectedHidden, episodeList,
                 resultEpisodeTitle, scriptContent, audioPlayerHidden,
                 interruptBlockHidden, questionInput, audio, revealTimers,
                 batchSeq, files, staged, episodePrompt, store, ghost>>

\* /api/ask_hosts answered 2xx without an audio URL
AskNoAudio(r) ==
  /\ Receive(r, "ask")
  /\ askSubmitDisabled' = FALSE
  /\ interruptBtnHidden' = FALSE
  /\ askFormHidden' = TRUE
  /\ last' = "askNoAudio"
  /\ UNCHANGED <<session, playback, banner, panels, interruptBlockHidden,
                 questionInput, audio, timers, files, staged, episodePrompt, store, ghost>>

\* /api/ask_hosts answered 2xx with an audio URL: the clip is loaded, play()
AskOk(r, clipUrl) ==
  /\ Receive(r, "ask")
  /\ askSubmitDisabled' = FALSE
  /\ isPlayingInterruptReply' = TRUE
  /\ audioSrc' = clipUrl
  /\ audioTime' = 0
  /\ audioPlaying' = TRUE
  /\ replyPlayPending' = TRUE
  /\ last' = "askOk"
  /\ UNCHANGED <<session, currentEpisodeScript, currentMainAudioUrl,
                 savedResumeTime, banner, panels, interruptBlockHidden,
                 interruptBtnHidden, askFormHidden, questionInput, timers,
                 files, staged, episodePrompt, store, ghost>>

\* the clip's play() promise is rejected: flag cleared, resumeMainAudio
ReplyPlayRejected ==
  /\ replyPlayPending
  /\ replyPlayPending' = FALSE
  /\ resumeMainAudio
  /\ last' = "playRejected"
  /\ UNCHANGED <<session, currentEpisodeScript, currentMainAudioUrl,
                 savedResumeTime, banner, panels, interruptBlockHidden,
                 askSubmitDisabled, net, timers, files, staged, episodePrompt, store, ghost>>

\* ------------------------------------- staged progress (src/static/script.js)
\* The second script variant: one form, one request (/api/generate-podcast),
\* and a progress bar that runStagedProgress advances on timers while the
\* request is pending.  It shares the page elements modelled above.
STAGED_MESSAGES ==
  <<[width |-> 30, text |-> "Extracting text from eBook..."],
    [width |-> 70, text |-> "AI Hosts analyzing narrative and drafting script..."],
    [width |-> 95, text |-> "Synthesizing neural voices..."],
    [width |-> 100, text |-> "Ready!"]>>

\* showError of script.js: as above, without a generate button
Staged_showError(msg) ==
  /\ errorMessage' = msg
  /\ errorPanelHidden' = FALSE
  /\ resultPanelHidden' = TRUE
  /\ progressHidden' = TRUE
  /\ submitBtnHidden' = FALSE
  /\ submitBtnDisabled' = FALSE
  /\ progressTimeouts' = {}
  /\ stagedTimer' = FALSE

\* form "submit" with a file that fails validateFile()
StagedSubmitInvalid ==
  /\ ~submitBtnHidden /\ ~submitBtnDisabled
  /\ validateFile(files) # NO_ERROR
  /\ Staged_showError(validateFile(files))
  /\ last' = "stagedSubmitInvalid"
  /\ UNCHANGED <<session, playback, progressPercent, generateBtnDisabled,
                 tryDemoDisabled, episodeExplorerHidden, episodeSelectedHidden,
                 episodeList, resultEpisodeTitle, scriptContent,
                 audioPlayerHidden, interruptUi, audio, net, revealTimers,
                 batchSeq, files, stage, episodePrompt, store, ghost>>

\* form "submit" with a valid file: setProgress(0), runStagedProgress() runs
\* its first step at once (stage 1 of STAGED_MESSAGES, timer set), then
\* POST /api/generate-podcast
StagedSubmit ==
  /\ ~submitBtnHidden /\ ~submitBtnDisabled
  /\ validateFile(files) = NO_ERROR
  /\ errorPanelHidden' = TRUE
  /\ submitBtnHidden' = TRUE
  /\ progressHidden' = FALSE
  /\ progressPercent' = STAGED_MESSAGES[1].width
  /\ stage' = 1
  /\ stagedTimer' = TRUE
  /\ Send("podcast")
  /\ last' = "stagedSubmit"
  /\ UNCHANGED <<session, playback, errorMessage, resultPanelHidden,
                 submitBtnDisabled, generateBtnDisabled, tryDemoDisabled,
                 episodeExplorerHidden, episodeSelectedHidden, episodeList,
                 resultEpisodeTitle, scriptContent, audioPlayerHidden,
                 interruptUi, audio, timers, files, episodePrompt, store,
                 ghost>>

\* the timer of runStagedProgress fires: next()
StagedNext ==
  /\ stagedTimer
  /\ IF stage >= Len(STAGED_MESSAGES)
     THEN /\ stagedTimer' = FALSE
          /\ UNCHANGED <<stage, progressPercent>>
     ELSE /\ progressPercent' = STAGED_MESSAGES[stage + 1].width
          /\ stage' = stage + 1
          /\ stagedTimer' = TRUE
  /\ last' = "stagedNext"
  /\ UNCHANGED <<session, playback, banner, resultPanelHidden, progressHidden,
                 submitBtnHidden, submitBtnDisabled, generateBtnDisabled,
                 tryDemoDisabled, episodeExplorerHidden, episodeSelectedHidden,
                 episodeList, resultEpisodeTitle, scriptContent,
                 audioPlayerHidden, interruptUi, audio, net, timers, files,
                 episodePrompt, store, ghost>>

\* /api/generate-podcast answered 2xx: addToHistory, showResult(script, audioUrl)
StagedOk(r, script, audioUrl, now) ==
  /\ Receive(r, "podcast")
  /\ IF Len(files) > 0 /\ Len(files[1].name) > 0
     THEN addToHistory(files[1].name, now)
     ELSE UNCHANGED store
  /\ progressTimeouts' = {}
  /\ stagedTimer' = FALSE
  /\ progressPercent' = 100
  /\ revealTimers' = Append(revealTimers,
        [script |-> script, audioUrl |-> audioUrl, episodeTitle |-> NULL])
  /\ last' = "stagedOk"
  /\ UNCHANGED <<session, playback, banner, resultPanelHidden, progressHidden,
                 submitBtnHidden, submitBtnDisabled, generateBtnDisabled,
                 tryDemoDisabled, episodeExplorerHidden, episodeSelectedHidden,
                 episodeList, resultEpisodeTitle, scriptContent,
                 audioPlayerHidden, interruptUi, audio, batchSeq, files, stage,
                 episodePrompt, ghost>>

\* /api/generate-podcast answered non-2xx, or could not complete
StagedFailed(r, msg) ==
  /\ Receive(r, "podcast")
  /\ Staged_showError(msg)
  /\ last' = "stagedFailed"
  /\ UNCHANGED <<session, playback, progressPercent, generateBtnDisabled,
                 tryDemoDisabled, episodeExplorerHidden, episodeSelectedHidden,
                 episodeList, resultEpisodeTitle, scriptContent,
                 audioPlayerHidden, interruptUi, audio, revealTimers, batchSeq,
                 files, stage, episodePrompt, store, ghost>>

\* the callback showResult of script.js scheduled, PROGRESS_TRANSITION_MS later
StagedReveal ==
  /\ Len(revealTimers) > 0
  /\ LET t == Head(revealTimers)
     IN  /\ revealTimers' = Tail(revealTimers)
         /\ progressHidden' = TRUE
         /\ submitBtnHidden' = FALSE
         /\ submitBtnDisabled' = FALSE
         /\ errorPanelHidden' = TRUE
         /\ resultPanelHidden' = FALSE
         /\ scriptContent' = << >>
         /\ IF t.audioUrl # NULL
            THEN /\ audioSrc' = t.audioUrl
                 /\ audioTime' = 0
                 /\ audioPlaying' = FALSE
                 /\ audioPlayerHidden' = FALSE
            ELSE /\ audioSrc' = NULL
                 /\ audioPlayerHidden' = TRUE
                 /\ UNCHANGED <<audioTime, audioPlaying>>
         /\ progressTimeouts' = progressTimeouts \cup Bubbles(t.script, batchSeq + 1)
         /\ batchSeq' = batchSeq + 1
         /\ displayed' = [script |-> t.script, audioUrl |-> t.audioUrl,
                          episodeTitle |-> t.episodeTitle, shown |-> TRUE]
  /\ last' = "stagedReveal"
  /\ UNCHANGED <<session, playback, errorMessage, progressPercent,
                 generateBtnDisabled, tryDemoDisabled, episodeExplorerHidden,
                 episodeSelectedHidden, episodeList, resultEpisodeTitle,
                 interruptUi, replyPlayPending, net, files, staged,
                 episodePrompt, store, captured, asksThisPause, payload,
                 returned>>

\* ----------------------------------------------------------- specification
Next ==
  \/ \E fs \in SessionFiles : SelectFile(fs)
  \/ SubmitInvalid
  \/ SubmitParse
  \/ \E r \in inflight, u \in UploadIds \cup {NULL}, e \in Episodes,
        now \in {NewestId, NewestId + 1} : ParseOk(r, u, e, now)
  \/ \E r \in inflight : ParseFailed(r)
  \/ \E r \in inflight : ParseNetworkError(r)
  \/ \E k \in 1..Len(episodeList) : onEpisodeSelected(k)
  \/ GenerateNoEpisode
  \/ GenerateClick
  \/ \E r \in inflight, sc \in Scripts, u \in MainUrls \cup {NULL} :
        GenerateOk(r, sc, u)
  \/ \E r \in inflight, m \in {ERR_SERVER, ERR_NETWORK} : GenerateFailed(r, m)
  \/ DemoClick
  \/ \E r \in inflight, sc \in Scripts, u \in MainUrls \cup {NULL} :
        DemoOk(r, sc, u)
  \/ \E r \in inflight, m \in {ERR_DEMO, ERR_NETWORK} : DemoFailed(r, m)
  \/ DismissError
  \/ RevealTimer
  \/ \E b \in progressTimeouts : BubbleTimer(b)
  \/ UserPlay
  \/ AudioAdvance
  \/ AudioEnded
  \/ InterruptIgnored
  \/ InterruptClick
  \/ \E q \in Questions : TypeQuestion(q)
  \/ AskBlank
  \/ AskNoScript
  \/ AskSubmit
  \/ \E r \in inflight, m \in {ERR_SERVER, ERR_NETWORK} : AskFailed(r, m)
  \/ \E r \in inflight : AskNoAudio(r)
  \/ \E r \in inflight, c \in ClipUrls : AskOk(r, c)
  \/ ReplyPlayRejected
  \/ \E p \in Prompts : TypePrompt(p)
  \/ \E i \in 1..Len(history) : RemoveFromHistory(i)

Spec == Init /\ [][Next]_vars

\* Upload -> parse -> select an episode, with the history sidebar.
NextParse ==
  \/ \E fs \in SessionFiles : SelectFile(fs)
  \/ SubmitInvalid
  \/ SubmitParse
  \/ \E r \in inflight, u \in UploadIds \cup {NULL}, e \in Episodes,
        now \in {NewestId, NewestId + 1} : ParseOk(r, u, e, now)
  \/ \E r \in inflight : ParseFailed(r)
  \/ \E r \in inflight : ParseNetworkError(r)
  \/ \E k \in 1..Len(episodeList) : onEpisodeSelected(k)
  \/ DismissError
  \/ \E i \in 1..Len(history) : RemoveFromHistory(i)

SpecParse == Init /\ [][NextParse]_vars

\* One upload taken through every request kind: parse, select an episode,
\* generate, listen, interrupt and ask, with the demo beside it.  The server's
\* answers are drawn from the smallest sets that reach every handler.
NextEpisode ==
  \/ SelectFile(<<GoodFile>>)
  \/ SubmitInvalid
  \/ SubmitParse
  \/ \E r \in inflight, u \in {"u1", NULL} :
        ParseOk(r, u, <<[id |-> 12, title |-> ""]>>, NewestId + 1)
  \/ \E r \in inflight : ParseFailed(r)
  \/ \E r \in inflight : ParseNetworkError(r)
  \/ \E k \in 1..Len(episodeList) : onEpisodeSelected(k)
  \/ \E p \in Prompts : TypePrompt(p)
  \/ GenerateNoEpisode
  \/ GenerateClick
  \/ \E r \in inflight : GenerateOk(r, FullScript, "m1")
  \/ \E r \in inflight, m \in {ERR_SERVER, ERR_NETWORK} : GenerateFailed(r, m)
  \/ DemoClick
  \/ \E r \in inflight, m \in {ERR_DEMO, ERR_NETWORK} : DemoFailed(r, m)
  \/ \E i \in 1..Len(history) : RemoveFromHistory(i)
  \/ RevealTimer
  \/ UserPlay
  \/ AudioAdvance
  \/ InterruptClick
  \/ TypeQuestion(<<" ", "q">>)
  \/ AskSubmit
  \/ \E r \in inflight, m \in {ERR_SERVER, ERR_NETWORK} : AskFailed(r, m)
  \/ \E r \in inflight, c \in ClipUrls : AskOk(r, c)

SpecEpisode == Init /\ [][NextEpisode]_vars

\* The page driven by src/static/script.js.
NextStaged ==
  \/ \E fs \in SessionFiles : SelectFile(fs)
  \/ StagedSubmitInvalid
  \/ StagedSubmit
  \/ StagedNext
  \/ \E r \in inflight, sc \in Scripts, u \in MainUrls \cup {NULL},
        now \in {NewestId, NewestId + 1} : StagedOk(r, sc, u, now)
  \/ \E r \in inflight, m \in {ERR_SERVER, ERR_NETWORK} : StagedFailed(r, m)
  \/ StagedReveal
  \/ \E b \in progressTimeouts : BubbleTimer(b)
  \/ DismissError

SpecStaged == Init /\ [][NextStaged]_vars

\* The history sidebar on a store that is empty, one short of full, or full:
\* uploads add entries, the delete button of the newest, the middle and the
\* oldest item removes them, MaxRemovals at most below a full store.
RemovalPositions == {1, (Len(history) + 1) \div 2, Len(history)}
RemovalInScope == \/ Len(history) <= MaxRequests
                  \/ Len(history) > HistoryCap - MaxRemovals
NextHistory ==
  \/ \E fs \in SessionFiles : SelectFile(fs)
  \/ SubmitInvalid
  \/ SubmitParse
  \/ \E r \in inflight, now \in {NewestId, NewestId + 1} :
        ParseOk(r, "u1", << >>, now)
  \/ \E r \in inflight : ParseFailed(r)
  \/ DismissError
  \/ \E i \in RemovalPositions : RemovalInScope /\ RemoveFromHistory(i)

SpecHistory == InitStored /\ [][NextHistory]_vars

\* Requests that overtake one another: a second parse request is sent while
\* the first is in flight (an error of another flow un-hides the submit
\* button), and the two answers arrive in either order.  Two answers handled
\* back to back may read the same clock value; otherwise the clock has moved.
ClockNow == IF last = "parseOk" THEN {NewestId, NewestId + 1} ELSE {NewestId + 1}
NextRace ==
  \/ \E fs \in SessionFiles : SelectFile(fs)
  \/ SubmitInvalid
  \/ SubmitParse
  \/ \E r \in inflight, u \in UploadIds, e \in Episodes, now \in ClockNow :
        ParseOk(r, u, e, now)
  \/ \E r \in inflight : ParseFailed(r)
  \/ \E k \in 1..Len(episodeList) : onEpisodeSelected(k)
  \/ GenerateNoEpisode
  \/ DemoClick
  \/ \E r \in inflight, m \in {ERR_DEMO, ERR_NETWORK} : DemoFailed(r, m)
  \/ DismissError
  \/ \E i \in 1..Len(history) : RemoveFromHistory(i)

SpecRace == Init /\ [][NextRace]_vars

\* The local store fails or recovers between two handlers: the browser denies
\* access, the quota runs out, the stored text is overwritten with something
\* that is not JSON.
StoreFault(status) ==
  /\ status \in StoreStatuses \ {storeStatus}
  /\ storeStatus' = status
  /\ history' = IF status = "unparsable" THEN << >> ELSE history
  /\ last' = "storage"
  /\ UNCHANGED <<session, playback, banner, panels, interruptUi, audio, net,
                 timers, files, staged, episodePrompt, ghost>>

\* a visit on a store in any condition, holding nothing or two entries
InitStorage ==
  /\ InitPage
  /\ storeStatus \in StoreStatuses
  /\ history \in IF storeStatus = "unparsable" THEN {<< >>}
                  ELSE {StoredHistory(0), StoredHistory(2)}

\* Upload and parse over a store that may fail at any moment.
NextStorage ==
  \/ \E fs \in SessionFiles : SelectFile(fs)
  \/ SubmitInvalid
  \/ SubmitParse
  \/ \E r \in inflight, u \in UploadIds, e \in Episodes :
        ParseOk(r, u, e, NewestId + 1)
  \/ \E r \in inflight : ParseFailed(r)
  \/ \E r \in inflight : ParseNetworkError(r)
  \/ \E k \in 1..Len(episodeList) : onEpisodeSelected(k)
  \/ DismissError
  \/ \E i \in 1..Len(history) : RemoveFromHistory(i)
  \/ \E status \in StoreStatuses : StoreFault(status)

SpecStorage == InitStorage /\ [][NextStorage]_vars

\* The interrupt / resume controller with everything that reaches it: results
\* arrive through the demo request (showResult and its timers), errors through
\* a failed demo or ask request and through a submit without a file.
NextPlayback ==
  \/ SubmitInvalid
  \/ DemoClick
  \/ \E r \in inflight, sc \in Scripts, u \in MainUrls \cup {NULL} :
        DemoOk(r, sc, u)
  \/ \E r \in inflight, m \in {ERR_DEMO, ERR_NETWORK} : DemoFailed(r, m)
  \/ DismissError
  \/ RevealTimer
  \/ \E b \in progressTimeouts : BubbleTimer(b)
  \/ UserPlay
  \/ AudioAdvance
  \/ AudioEnded
  \/ InterruptIgnored
  \/ InterruptClick
  \/ \E q \in Questions : TypeQuestion(q)
  \/ AskBlank
  \/ AskNoScript
  \/ AskSubmit
  \/ \E r \in inflight, m \in {ERR_SERVER, ERR_NETWORK} : AskFailed(r, m)
  \/ \E r \in inflight : AskNoAudio(r)
  \/ \E r \in inflight, c \in ClipUrls : AskOk(r, c)
  \/ ReplyPlayRejected

SpecPlayback == Init /\ [][NextPlayback]_vars

\* The same with the scheduling the event loop and the claim's assumptions
\* give: an ask_hosts request is answered one way or another, a resource that
\* plays reaches its end, a timer that is set fires.
AskAnswered ==
  \/ \E r \in inflight, m \in {ERR_SERVER, ERR_NETWORK} : AskFailed(r, m)
  \/ \E r \in inflight : AskNoAudio(r)
  \/ \E r \in inflight, c \in ClipUrls : AskOk(r, c)
SpecPlaybackLive ==
  /\ SpecPlayback
  /\ WF_vars(AskAnswered)
  /\ WF_vars(AudioEnded)
  /\ WF_vars(RevealTimer)
  /\ WF_vars(\E b \in progressTimeouts : BubbleTimer(b))

\* Upload / validate: any file of Files can be picked; a parse request that
\* is sent fails, so that the form can be submitted again.
NextUpload ==
  \/ \E f \in Files : SelectFile(<<f>>)
  \/ SelectFile(<< >>)
  \/ SubmitInvalid
  \/ SubmitParse
  \/ \E r \in inflight : ParseFailed(r)
  \/ \E r \in inflight : ParseNetworkError(r)
  \/ DismissError

SpecUpload == Init /\ [][NextUpload]_vars

\* ================================================================= claims
AskInFlight == \E r \in inflight : r.kind = "ask"
\* the controller's states, read off the program state
RequestingAnswer == AskInFlight
AwaitingQuestion == ~askFormHidden /\ ~AskInFlight /\ ~isPlayingInterruptReply
IdleUi == ~interruptBtnHidden /\ askFormHidden
MainResumed == /\ audioSrc \in MainUrls
               /\ audioSrc = currentMainAudioUrl
               /\ audioPlaying
IsBlank(q) == \A i \in 1..Len(q) : q[i] = " "
NoScriptLoaded == currentEpisodeScript.isNull \/ Len(currentEpisodeScript.lines) = 0

\* C1: whenever an answer clip finishes playing, the main track is loaded
\* again, positioned at the offset the interrupt captured, and played; the
\* interrupt trigger is visible and the ask form hidden.
C1_ResumeAtCapturedOffset ==
  [][(last' = "ended" /\ audioSrc \in ClipUrls)
       => (MainResumed' /\ audioTime' = captured /\ IdleUi')]_vars

\* C2: isPlayingInterruptReply is true only while an answer clip is the
\* source of the audio element; every run of resumeMainAudio clears the flag
\* and, when it starts the main track, has positioned it at savedResumeTime.
C2_FlagOnlyWithClip == isPlayingInterruptReply => audioSrc \in ClipUrls
C2_ResumeStep ==
  (last' = "playRejected" \/ (last' = "ended" /\ isPlayingInterruptReply))
    => /\ ~isPlayingInterruptReply'
       /\ currentMainAudioUrl # NULL
            => (MainResumed' /\ audioTime' = savedResumeTime)
       /\ currentMainAudioUrl = NULL => ~audioPlaying'
C2_FlagAndResume == [] C2_FlagOnlyWithClip /\ [][C2_ResumeStep]_vars
C2_Witness == /\ last = "ended" /\ MainResumed
              /\ savedResumeTime > 0 /\ audioTime = savedResumeTime

\* C3: after an ask_hosts request ends in a failure outcome (failed request,
\* answer without audio URL, clip playback rejected) the controller is Idle
\* with the main audio loaded at the saved offset and playing.
C3_FailureResumesMain ==
  last \in {"askFailed", "askNoAudio", "playRejected"}
    => (MainResumed /\ audioTime = savedResumeTime /\ IdleUi)

C5_TriggerHiddenWhilePaused ==
  (AwaitingQuestion \/ RequestingAnswer) => interruptBtnHidden

\* C6: the interrupt action with no episode script or no main audio URL
\* loaded changes nothing.
C6_InterruptWithoutScriptOrAudio ==
  [][(last' \in {"interrupt", "interruptIgnored"}
        /\ (NoScriptLoaded \/ currentMainAudioUrl = NULL))
       => UNCHANGED program]_vars

\* C7: submitting an empty or whitespace-only question sends no request and
\* changes no state.
C7_BlankQuestionNoOp ==
  [][(last' \in {"askBlank", "askNoScript", "askSubmit"} /\ IsBlank(questionInput))
       => (last' = "askBlank" /\ UNCHANGED program)]_vars
C7_Witness == /\ last = "askBlank" /\ Len(questionInput) > 0
              /\ AskFormShown /\ ~askSubmitDisabled /\ ~AskInFlight

\* C8 as stated: within one pause (from one interrupt action to the next)
\* at most one question is submitted.
C8_Original == asksThisPause <= 1

\* C8 as amended: a second question of the same pause is submitted only while
\* the answer to the one before is the loaded clip (the ask form is still
\* shown then), never while a request is in flight or after a failed or
\* audio-less answer.
C8_SecondQuestionOnlyDuringAnswer ==
  [][(last' = "askSubmit" /\ asksThisPause >= 1)
       => (isPlayingInterruptReply /\ ~AskInFlight)]_vars
C8_Witness == /\ last = "askSubmit" /\ asksThisPause = 2
              /\ isPlayingInterruptReply /\ audioSrc \in ClipUrls

\* the name ends in "." followed by pdf or epub in any letter case
EndsWith(name, tl) ==
  /\ Len(name) >= Len(tl)
  /\ SubSeq(name, Len(name) - Len(tl) + 1, Len(name)) = tl
CarriesAcceptedExtension(name) ==
  \E e \in PdfCases \cup EpubCases : EndsWith(name, <<".">> \o e)
\* the type check of validateFile lets the name through: its text after the
\* last "." (all of it when there is none) is pdf or epub in any letter case
AcceptedType(name) ==
  \E e \in PdfCases \cup EpubCases :
     name = e \/ EndsWith(name, <<".">> \o e)
Submitted == last \in {"submitInvalid", "submitParse"}

\* C9: a file whose name does not carry .pdf or .epub (in any letter case),
\* names without a dot included, gets the unsupported-type error and no
\* request is sent for it.
C9_UnsupportedTypeRejected ==
  (Submitted /\ Len(files) = 1 /\ ~CarriesAcceptedExtension(files[1].name))
    => (last = "submitInvalid" /\ errorMessage = ERR_TYPE)

\* C10 as stated: every file over 50 MB gets the too-large error; a file of
\* exactly 50 MB with an accepted extension passes.
C10_Original ==
  (Submitted /\ Len(files) = 1)
    => /\ files[1].size > MaxBytes
            => (last = "submitInvalid" /\ errorMessage = ERR_LARGE)
       /\ (files[1].size = MaxBytes /\ CarriesAcceptedExtension(files[1].name))
            => last = "submitParse"

\* C10 as amended: a file over 50 MB that passes the type check gets the
\* too-large error; one that does not pass it gets the unsupported-type error,
\* the type being checked first; a file of exactly 50 MB with an accepted
\* extension passes and is sent.
C10_TooLargeAfterTypeCheck ==
  (Submitted /\ Len(files) = 1)
    => /\ (files[1].size > MaxBytes /\ AcceptedType(files[1].name))
            => (last = "submitInvalid" /\ errorMessage = ERR_LARGE)
       /\ (files[1].size > MaxBytes /\ ~AcceptedType(files[1].name))
            => (last = "submitInvalid" /\ errorMessage = ERR_TYPE)
       /\ (files[1].size = MaxBytes /\ CarriesAcceptedExtension(files[1].name))
            => (last = "submitParse" /\ \E r \in inflight : r.kind = "parse")
C10_Witness ==
  /\ last = "submitInvalid" /\ Len(files) = 1
  /\ files[1].size > MaxBytes /\ CarriesAcceptedExtension(files[1].name)
  /\ errorMessage = ERR_LARGE /\ ~errorPanelHidden /\ inflight = {}

\* C11: handling a failed parse request (non-2xx answer or network error)
\* shows the error and leaves currentUploadId, currentEpisodes,
\* selectedEpisodeId, selectedEpisodeTitle and the history list as they were.
C11_ParseFailureKeepsSession ==
  [][last' \in {"parseFailed", "parseNetworkError"}
       => (/\ ~errorPanelHidden'
           /\ errorMessage' \in {ERR_SERVER, ERR_NETWORK}
           /\ UNCHANGED session
           /\ history' = history)]_vars
C11_Witness ==
  /\ last \in {"parseFailed", "parseNetworkError"}
  /\ currentUploadId # NULL /\ Len(currentEpisodes) > 0
  /\ selectedEpisodeId # NoEpisode /\ Len(history) > 0
  /\ ~errorPanelHidden

\* C12: handling a successful parse response installs the returned upload id
\* and episode list, clears the episode selection, puts exactly one new
\* entry, named after the uploaded file, at the head of the history list in
\* front of the entries that were there, and shows no error.
C12_ParseSuccessInstallsSession ==
  [][last' = "parseOk"
       => (/\ currentUploadId' = returned'.upload_id
           /\ currentEpisodes' = returned'.episodes
           /\ selectedEpisodeId' = NoEpisode /\ selectedEpisodeTitle' = NULL
           /\ Len(history') = Len(history) + 1
           /\ SubSeq(history', 2, Len(history')) = history
           /\ UNCHANGED banner)]_vars

\* C13: the episode list holds one item per episode of the installed
\* session, at most one item is marked, and after a selection exactly one
\* item is marked: the one whose id and title the selection stored.
MarkedItems == {i \in 1..Len(episodeList) : episodeList[i].isSelected}
C13_Items ==
  /\ Len(episodeList) = Len(currentEpisodes)
  /\ returned.received => Len(episodeList) = Len(returned.episodes)
  /\ \A i \in 1..Len(episodeList) :
        episodeList[i].episodeId = String(currentEpisodes[i].id)
  /\ Cardinality(MarkedItems) <= 1
  /\ \A i \in MarkedItems : episodeList[i].episodeId = selectedEpisodeId
  /\ selectedEpisodeId = NoEpisode => MarkedItems = {}
C13_SelectStep ==
  last' = "selectEpisode"
    => \E k \in 1..Len(episodeList') :
         /\ episodeList'[k].episodeId = selectedEpisodeId'
         /\ episodeList'[k].episodeTitle = selectedEpisodeTitle'
         /\ \A i \in 1..Len(episodeList') : episodeList'[i].isSelected <=> i = k
C13_SingleSelectLastWins == [] C13_Items /\ [][C13_SelectStep]_vars
C13_Witness ==
  /\ last = "selectEpisode" /\ Len(episodeList) = 2
  /\ MarkedItems = {2} /\ selectedEpisodeId = String(currentEpisodes[2].id)

\* the generate handler ran, one way or the other
GenerateInvoked == last' \in {"generateNoEpisode", "generateClick"}
GenerateRefused ==
  /\ last' = "generateNoEpisode"
  /\ errorMessage' = ERR_NO_EPISODE /\ ~errorPanelHidden'
  /\ UNCHANGED <<net, payload>>
GenerateSent ==
  /\ last' = "generateClick"
  /\ reqSeq' = reqSeq + 1
  /\ inflight' = inflight \cup {[id |-> reqSeq', kind |-> "generate"]}
  /\ payload'.sent
  /\ payload'.upload_id = currentUploadId
  /\ \E i \in MarkedItems : payload'.episode_id = currentEpisodes[i].id
  /\ payload'.user_prompt = trim(episodePrompt)
  /\ IsBlank(episodePrompt) => payload'.user_prompt = << >>
  /\ \A j \in 1..Len(payload'.user_prompt) :
        (j = 1 \/ j = Len(payload'.user_prompt)) => payload'.user_prompt[j] # " "

\* C14 as stated: generate with no episode selected shows the
\* no-episode-selected error and sends nothing; with an episode selected it
\* sends one generate_episode request with the upload id, the episode's id
\* and the trimmed prompt.
C14_Original ==
  [][GenerateInvoked
       => IF selectedEpisodeId = NoEpisode THEN GenerateRefused
          ELSE GenerateSent]_vars

\* C14 as amended: generate is refused with the no-episode-selected error
\* when no episode is selected or no upload id is held (a parse answer
\* without upload_id leaves it null); with both it sends one request with the
\* upload id, the selected episode's id and the trimmed prompt.
C14_GenerateNeedsUploadAndEpisode ==
  [][GenerateInvoked
       => IF selectedEpisodeId = NoEpisode \/ currentUploadId = NULL
          THEN GenerateRefused
          ELSE GenerateSent]_vars
C14_Witness ==
  /\ last = "generateClick" /\ payload.sent
  /\ payload.episode_id = 12 /\ payload.user_prompt = <<"p">>
  /\ episodePrompt = <<" ", "p", " ">>

\* the handlers that end in showError
ErrorShown == last \in {"submitInvalid", "parseFailed", "parseNetworkError",
                        "generateNoEpisode", "generateFailed", "demoFailed",
                        "askNoScript", "askFailed"}
ResultArrived == last \in {"generateOk", "demoOk"}

\* C15: when an error has just been shown no timer of an earlier flow is
\* left pending (a pending timer fires later); when a result has just
\* arrived only its own reveal is pending; when a result has just been
\* revealed only its own bubbles are pending.
C15_TimersOfEarlierFlowCancelled ==
  /\ ErrorShown => (revealTimers = << >> /\ progressTimeouts = {})
  /\ ResultArrived => (Len(revealTimers) = 1 /\ progressTimeouts = {})
  /\ last = "reveal" => \A b \in progressTimeouts : b.batch = batchSeq

\* C19: while a result that came without audio URL is displayed, the audio
\* element has no source, the player is hidden and the interrupt block is
\* hidden.
C19_NoAudioNoControls ==
  (displayed.shown /\ ~resultPanelHidden /\ displayed.audioUrl = NULL)
    => (audioSrc = NULL /\ audioPlayerHidden /\ interruptBlockHidden)

\* C16: while the request is pending the progress indicator shows no more
\* than the near-complete value; 100% appears only once a successful response
\* has been handled.
NEAR_COMPLETE == 95
C16_NoReadyWhilePending ==
  (\E r \in inflight : r.kind = "podcast") => progressPercent <= NEAR_COMPLETE

OutsideController ==
  {"selectFile", "submitInvalid", "submitParse", "parseOk", "parseFailed",
   "parseNetworkError", "selectEpisode", "typePrompt", "generateNoEpisode",
   "generateClick", "generateOk", "generateFailed", "demoClick", "demoOk",
   "demoFailed", "dismissError", "removeFromHistory", "bubble", "userPlay",
   "timeupdate"}

\* C20: the reveal of a new result loads its audio with savedResumeTime 0
\* and isPlayingInterruptReply false; no handler outside the controller and
\* the reveal changes either of the two.
C20_RevealStep ==
  last' = "reveal"
    => /\ savedResumeTime' = 0 /\ ~isPlayingInterruptReply'
       /\ displayed'.audioUrl # NULL
            => (audioSrc' = displayed'.audioUrl /\ audioTime' = 0)
C20_FrameStep ==
  last' \in OutsideController
    => UNCHANGED <<savedResumeTime, isPlayingInterruptReply>>
C20_PlaybackStateReset == [][C20_RevealStep /\ C20_FrameStep]_vars
C20_Witness ==
  /\ last = "reveal" /\ captured > 0 /\ savedResumeTime = 0
  /\ displayed.audioUrl \in MainUrls /\ audioSrc = displayed.audioUrl

\* C18: the history list never holds more than 50 entries and is ordered
\* newest first; an upload adds its entry at the head, and when 50 entries
\* are present the oldest one is dropped and the other 49 follow the new
\* entry in their order.
NewestFirst ==
  \A i, j \in 1..Len(history) : i < j => history[i].id >= history[j].id
C18_Bounded == Len(history) <= HistoryCap /\ NewestFirst
C18_AddStep ==
  (last' = "parseOk" /\ Len(files) > 0)
    => /\ history'[1].fullName = files[1].name
       /\ history'[1].id >= NewestId
       /\ IF Len(history) = HistoryCap
          THEN /\ Len(history') = HistoryCap
               /\ SubSeq(history', 2, HistoryCap) = SubSeq(history, 1, HistoryCap - 1)
          ELSE SubSeq(history', 2, Len(history) + 1) = history
C18_HistoryCapped == [] C18_Bounded /\ [][C18_AddStep]_vars
C18_Witness ==
  /\ last = "parseOk" /\ Len(history) = HistoryCap
  /\ history[1].id = HistoryCap /\ history[HistoryCap].id = 1

\* C21: a parse response is installed whatever its age: the session holds
\* the data of the response handled last, also when the request of that
\* response is older than one answered before.  (The witness is the execution
\* the claim says exists.)
C21_StaleResponseInstalled ==
  [][last' = "parseOk"
       => (/\ currentUploadId' = returned'.upload_id
           /\ currentEpisodes' = returned'.episodes
           /\ Len(episodeList') = Len(returned'.episodes)
           /\ selectedEpisodeId' = NoEpisode)]_vars
C21_Witness ==
  /\ last = "parseOk" /\ returned.stale
  /\ returned.replaced # NULL /\ returned.replaced # returned.upload_id
  /\ currentUploadId = returned.upload_id
  /\ currentEpisodes = returned.episodes

\* C25: removing a history entry removes that entry alone: the list is one
\* shorter and the other entries keep their order.
C25_RemovesExactlyOne ==
  [][last' = "removeFromHistory"
       => \E i \in 1..Len(history) :
            history' = SubSeq(history, 1, i - 1) \o SubSeq(history, i + 1, Len(history))]_vars

\* C22: once a question has been sent, the controller eventually is Idle
\* again: interrupt trigger shown, ask form hidden, ask button enabled,
\* isPlayingInterruptReply false.
\* The property is stated in its weakest form: the obligation is dropped as
\* soon as the user does anything else after the submission, so that only
\* responses, timers and audio events lie between the submission and Idle.
ControllerIdle == IdleUi /\ ~askSubmitDisabled /\ ~isPlayingInterruptReply
SystemEvents ==
  {"askFailed", "askNoAudio", "askOk", "demoOk", "demoFailed", "reveal",
   "bubble", "timeupdate", "ended", "playRejected"}
UserActedAgain == last \notin SystemEvents \cup {"askSubmit"}
C22_EventuallyIdle == (last = "askSubmit") ~> (ControllerIdle \/ UserActedAgain)

\* C23: the ask button is disabled whenever an ask_hosts request is in
\* flight, it goes from disabled to enabled only in the handling of that
\* request's response or failure, and at most one ask_hosts request is in
\* flight at any time.
AsksInFlight == {r \in inflight : r.kind = "ask"}
AskHandled == {"askFailed", "askNoAudio", "askOk"}
C23_DisabledWhileInFlight ==
  /\ [](AskInFlight => askSubmitDisabled)
  /\ [](Cardinality(AsksInFlight) <= 1)
  /\ [][(askSubmitDisabled /\ ~askSubmitDisabled')
          => (last' \in AskHandled /\ AsksInFlight' = {}
              /\ Cardinality(AsksInFlight) = 1)]_vars
\* a second demo request is in flight next to the ask_hosts request, the form
\* is still shown and the button is disabled
C23_Witness ==
  /\ last = "askSubmit" /\ AskInFlight /\ askSubmitDisabled /\ AskFormShown
  /\ \E r \in inflight : r.kind = "demo"

\* C24: while a result is the one on display, the rendered transcript is a
\* prefix of that result's script lines: each line at most once, in script
\* order, nothing else.
IsPrefixOf(s, t) == Len(s) <= Len(t) /\ SubSeq(t, 1, Len(s)) = s
TranscriptIsPrefix ==
  displayed.shown => IsPrefixOf(scriptContent, displayed.script)
\* ... and once no reveal or bubble timer is pending any more, the transcript
\* is the whole script.
TranscriptComplete ==
  (displayed.shown /\ progressTimeouts = {} /\ revealTimers = << >>)
     => scriptContent = displayed.script
C24_TranscriptFollowsScript == TranscriptIsPrefix /\ TranscriptComplete

\* C27: an ask_hosts response handled right after a new result has been
\* shown and has reset the controller to Idle leaves the new result's main
\* audio in the audio element and leaves isPlayingInterruptReply false.
ResetByNewResult ==
  /\ last = "reveal" /\ displayed.shown
  /\ IdleUi /\ ~isPlayingInterruptReply
  /\ audioSrc \in MainUrls /\ audioSrc = displayed.audioUrl
C27_LateAnswerIgnored ==
  [][(ResetByNewResult /\ last' = "askOk")
       => (audioSrc' = audioSrc /\ ~isPlayingInterruptReply')]_vars

\* C26: whatever the condition of the local store, the handling of a
\* successful parse response installs the new session, shows the episode
\* explorer and leaves the error banner as it was; on a store that cannot be
\* written the stored history is unchanged, on one that cannot be read or
\* parsed the list is taken as empty.  Removing an entry likewise leaves the
\* banner alone and the history unchanged or empty.
StoreFaulty == storeStatus # "ok"
C26_StoreFailureDegrades ==
  [][/\ (last' = "parseOk" /\ StoreFaulty) =>
          /\ currentUploadId' = returned'.upload_id
          /\ currentEpisodes' = returned'.episodes
          /\ ~episodeExplorerHidden'
          /\ UNCHANGED banner
          /\ \/ UNCHANGED store
             \/ /\ storeStatus = "unparsable" /\ Len(files) > 0
                /\ Len(history') = 1 /\ history'[1].fullName = files[1].name
     /\ (last' = "removeFromHistory" /\ StoreFaulty) =>
          /\ UNCHANGED banner
          /\ history' = history \/ history' = << >>]_vars
\* a parse response has been handled over a full store that holds entries:
\* session installed, explorer shown, no banner, history as it was
C26_Witness ==
  /\ last = "parseOk" /\ storeStatus = "full" /\ Len(files) > 0
  /\ Len(history) = 2 /\ currentUploadId = returned.upload_id
  /\ ~episodeExplorerHidden /\ errorPanelHidden

====
